---- MODULE Spec2Model ----
(***************************************************************************)
(* State-machine model of the COVID dashboard's update scheduling core:    *)
(* the two job registries (covid_updates, news_updates), the two           *)
(* sched.scheduler queues, the article store and block list, and the       *)
(* request handler index() that applies one user event, sweeps both        *)
(* schedulers and rebuilds the display list.                               *)
(*                                                                         *)
(* Strings whose characters matter to the code (job names, time texts,     *)
(* article titles, search terms) are sequences of one-character strings.   *)
(***************************************************************************)
EXTENDS Integers, Sequences, FiniteSets, TLC

\* ------------------------------------------------------------------------
\* Bounds of the model
\* ------------------------------------------------------------------------
\* Largest number of jobs held by one registry (guard of the create event).
MaxJobs == 1
\* Largest number of raw articles in one fetched batch.
MaxBatch == 2
\* Largest length of blocked_articles (guard of the block event).
MaxBlocked == 1
\* Number of clock steps that make up one day.
StepsPerDay == 2
\* Largest length of a scheduler queue before a direct call of
\* schedule_covid_updates / schedule_news_updates.
MaxQueue == 2
\* Largest number of jobs of one registry when the display list is rebuilt.
MaxRows == 2
\* Largest number of jobs of one registry before a direct call of a create
\* or schedule function adds one.
MaxApiJobs == 2

\* ------------------------------------------------------------------------
\* Program constants
\* ------------------------------------------------------------------------
\* datetime.timedelta.seconds lies in 0 .. 86399.
SecondsPerDay == 86400
\* format_article keeps the first 20 words of the content.
WordLimit == 20

\* Python's None, and the truthiness of a str-or-None value.
None == "<None>"
\* (A truthiness that holds for every value but None.)
Truthy_NotNone(v) == v # None
Truthy(v) == v # None /\ v # ""

\* The update_name seen by update_news when it is called without argument.
NoName == <<None>>
\* Truthiness of a job name (a str, or NoName for None).
TruthyName(n) == n # NoName /\ Len(n) > 0

\* Job names offered by requests: empty, one character, several characters.
Names == { <<>>, <<"a">>, <<"a", "b">> }

\* Values of the "repeat" request parameter.
RepeatVals == { None, "repeat" }

\* Time texts offered by requests.
T1200 == <<"1", "2", ":", "0", "0">>
TimeTexts == { T1200 }
\* A text that is no "HH:MM" time: strptime raises ValueError for it.
T2400 == <<"2", "4", ":", "0", "0">>
\* Values of the "update" request parameter, well-formed or not.
AnyTimeTexts == { T1200, T2400 }
\* Sub-second parts of datetime.now() offered to a create request.
Fracs == { 0 }
\* The time text of a placeholder job: the str "None".
NoneText == <<"N", "o", "n", "e">>

\* Values of the configured update intervals used by the model.
Intervals == { 0, SecondsPerDay }

\* Length of one clock step.
TimeStep == SecondsPerDay \div StepsPerDay

\* ------------------------------------------------------------------------
\* Sequences
\* ------------------------------------------------------------------------
RemoveAt(s, i) == SubSeq(s, 1, i - 1) \o SubSeq(s, i + 1, Len(s))
InsertAt(s, i, e) == SubSeq(s, 1, i - 1) \o <<e>> \o SubSeq(s, i, Len(s))
Take(s, n) == SubSeq(s, 1, IF Len(s) < n THEN Len(s) ELSE n)
Range(s) == { s[i] : i \in 1..Len(s) }
SeqsUpTo(S, n) == UNION { [1..k -> S] : k \in 0..n }

\* ------------------------------------------------------------------------
\* datetime.strptime(update_time, "%H:%M") and the delay of a new update
\* ------------------------------------------------------------------------
DigitSeq == <<"0", "1", "2", "3", "4", "5", "6", "7", "8", "9">>
Digits == Range(DigitSeq)
DigitVal(c) == (CHOOSE i \in 1..10 : DigitSeq[i] = c) - 1
IsNum(s) == Len(s) \in {1, 2} /\ \A i \in 1..Len(s) : s[i] \in Digits
NumVal(s) ==
    IF Len(s) = 1 THEN DigitVal(s[1]) ELSE 10 * DigitVal(s[1]) + DigitVal(s[2])
\* The places where a valid hour : minute split of the text exists.
TimeSplits(t) ==
    { p \in 1..Len(t) :
        /\ t[p] = ":"
        /\ IsNum(SubSeq(t, 1, p - 1))
        /\ IsNum(SubSeq(t, p + 1, Len(t)))
        /\ NumVal(SubSeq(t, 1, p - 1)) <= 23
        /\ NumVal(SubSeq(t, p + 1, Len(t))) <= 59 }
ValidTime(t) == TimeSplits(t) # {}
\* Seconds of the day of a valid time text.
TimeSeconds(t) ==
    LET p == CHOOSE q \in TimeSplits(t) : TRUE
    IN  3600 * NumVal(SubSeq(t, 1, p - 1)) + 60 * NumVal(SubSeq(t, p + 1, Len(t)))
\* (schedule_time - current_time).seconds, for a current time of day of
\* now_s whole seconds and a sub-second part that is zero (frac = 0) or not
\* (frac = 1): timedelta normalises to 0 <= seconds < 86400.
DelaySeconds_Signed(t, now_s, frac) == TimeSeconds(t) - now_s - frac
DelaySeconds(t, now_s, frac) == (TimeSeconds(t) - now_s - frac) % SecondsPerDay

\* ------------------------------------------------------------------------
\* A registry: a dict name -> job, kept as the sequence of its items in
\* insertion order.  A job is [name, time, repeats, update]; update is the
\* handle of its scheduled event, or NoKey when the "update" key is absent.
\* ------------------------------------------------------------------------
NoKey == 0
Keys(reg) == { reg[i].name : i \in 1..Len(reg) }
Index(reg, n) == CHOOSE i \in 1..Len(reg) : reg[i].name = n
Get(reg, n) == reg[Index(reg, n)]
\* reg[n] = job: replaces in place, or appends a new key.
Put(reg, n, job) ==
    IF n \in Keys(reg) THEN [reg EXCEPT ![Index(reg, n)] = job]
    ELSE Append(reg, job)
\* reg.pop(n)
Pop(reg, n) == RemoveAt(reg, Index(reg, n))
\* reg[n]["update"] = id
SetUpdate(reg, n, id) == [reg EXCEPT ![Index(reg, n)].update = id]
\* (A merge that lists b's items before a's.)
Merge_SecondFirst(a, b) == b \o SelectSeq(a, LAMBDA j : j.name \notin Keys(b))
\* {**a, **b}: a's items, b's values winning, then b's new keys.
Merge(a, b) ==
    [i \in 1..Len(a) |-> IF a[i].name \in Keys(b) THEN Get(b, a[i].name) ELSE a[i]]
    \o SelectSeq(b, LAMBDA j : j.name \notin Keys(a))

\* ------------------------------------------------------------------------
\* sched.scheduler: the queue is kept as the sequence of its events in the
\* order heappop would return them (time, priority, sequence number).
\* An event is [id, time, arg]; time is stored relative to the clock (the
\* seconds left until the event is due, 0 when it is due), id stands for
\* the identity of the Event object.
\* ------------------------------------------------------------------------
EventIds(q) == { q[i].id : i \in 1..Len(q) }
\* An identity that no queued event and no job handle of the domain has.
FreshId(reg, q) ==
    LET used == EventIds(q) \cup { reg[i].update : i \in 1..Len(reg) }
    IN  CHOOSE i \in 1..(Cardinality(used) + 1) :
            i \notin used /\ \A j \in 1..(i - 1) : j \in used
\* s.enter(delay, 1, action, arg): the new event goes behind every event
\* that is due no later (equal times pop in order of insertion).
EnterPos(q, delay) == Cardinality({ i \in 1..Len(q) : q[i].time <= delay }) + 1
Enter(q, delay, arg, id) ==
    InsertAt(q, EnterPos(q, delay), [id |-> id, time |-> delay, arg |-> arg])
\* s.cancel(event) removes the event; it raises ValueError when absent.
CanCancel(q, id) == id \in EventIds(q)
Cancel(q, id) == SelectSeq(q, LAMBDA e : e.id # id)
\* The live callbacks of a name: the queued events whose argument it is.
Live(q, n) == { i \in 1..Len(q) : q[i].arg = n }
\* time.time() moved on by d seconds.
Elapse(q, d) ==
    [i \in 1..Len(q) |-> [q[i] EXCEPT !.time = IF @ > d THEN @ - d ELSE 0]]
\* run(): the head of the queue is due (time <= now) and is popped next.
HeadDue(q) == Len(q) > 0 /\ Head(q).time <= 0
\* action(*argument): a str argument is unpacked into its characters.
Unpack(arg) == [i \in 1..Len(arg) |-> <<arg[i]>>]

\* ------------------------------------------------------------------------
\* Articles.  A raw article is [title, content, url]: the title a sequence
\* of characters, the content a sequence of words, the url a string or
\* Missing when the dict has no "url" key.
\* ------------------------------------------------------------------------
Missing == "<missing>"
UpperSeq == <<"A", "B", "C", "D", "E", "F", "G", "H", "I", "J", "K", "L", "M",
              "N", "O", "P", "Q", "R", "S", "T", "U", "V", "W", "X", "Y", "Z">>
LowerSeq == <<"a", "b", "c", "d", "e", "f", "g", "h", "i", "j", "k", "l", "m",
              "n", "o", "p", "q", "r", "s", "t", "u", "v", "w", "x", "y", "z">>
\* str.lower()
LowerChar(c) ==
    IF c \in Range(UpperSeq)
    THEN LowerSeq[CHOOSE i \in 1..26 : UpperSeq[i] = c] ELSE c
Lower(s) == [i \in 1..Len(s) |-> LowerChar(s[i])]
\* needle in haystack, for str
Contains(hay, needle) ==
    \E i \in 0..(Len(hay) - Len(needle)) : SubSeq(hay, i + 1, i + Len(needle)) = needle
\* str.split(): the maximal runs of characters that are not whitespace.
IsSpace(c) == c \in { " ", "\t", "\n" }
WordEnd(s) ==
    IF \E i \in 1..Len(s) : IsSpace(s[i])
    THEN (CHOOSE i \in 1..Len(s) :
              IsSpace(s[i]) /\ \A j \in 1..(i - 1) : ~IsSpace(s[j])) - 1
    ELSE Len(s)
RECURSIVE Split(_)
Split(s) ==
    IF s = <<>> THEN <<>>
    ELSE IF IsSpace(s[1]) THEN Split(Tail(s))
    ELSE <<SubSeq(s, 1, WordEnd(s))>> \o Split(SubSeq(s, WordEnd(s) + 1, Len(s)))

\* The title of the placeholder: "No relevant articles currently".
SentinelTitle ==
    <<"N", "o", " ", "r", "e", "l", "e", "v", "a", "n", "t", " ",
      "a", "r", "t", "i", "c", "l", "e", "s", " ",
      "c", "u", "r", "r", "e", "n", "t", "l", "y">>
empty_article == [title |-> SentinelTitle, content |-> <<>>, url |-> Missing]

\* The configured news_search_terms of the model: the terms "co" and "V".
SearchTerms == <<"c", "o", " ", "V">>
TitleCo == <<"C", "o">>
TitleX == <<"x">>
\* The raw articles the news API can return in the model: two with one
\* title and different contents, and one that no search term matches.
ArticleCo1 == [title |-> TitleCo, content |-> <<"w1">>, url |-> "u1"]
ArticleCo2 == [title |-> TitleCo, content |-> <<>>,     url |-> "u2"]
ArticleX   == [title |-> TitleX,  content |-> <<"w1">>, url |-> "u3"]
Catalog == { ArticleCo1, ArticleCo2, ArticleX }
Batches == SeqsUpTo(Catalog, MaxBatch)
\* The outcomes of requests.get: a connection error, or a batch.
ResponsesOf(batches) ==
    { [ok |-> FALSE, articles |-> <<>>] } \cup [ok : {TRUE}, articles : batches]
\* Titles a block request can name.
BlockTitles == { TitleCo }

\* (A filter that looks for the terms as they are written.)
filter_articles_TermAsWritten(articles, search_terms) ==
    SelectSeq(articles,
        LAMBDA article :
            \E k \in 1..Len(Split(search_terms)) :
                Contains(Lower(article.title), Split(search_terms)[k]))

filter_articles(articles, search_terms) ==
    SelectSeq(articles,
        LAMBDA article :
            \E k \in 1..Len(Split(search_terms)) :
                Contains(Lower(article.title), Lower(Split(search_terms)[k])))

\* (A news_API_request that does not look at the API key.)
news_API_request_KeyUnchecked(resp, covid_terms, key_set) ==
    IF ~resp.ok THEN [err |-> "ConnectionError", articles |-> <<>>]
    ELSE LET filtered_articles == filter_articles(resp.articles, covid_terms)
         IN  [err |-> "none",
              articles |-> IF Len(filtered_articles) = 0
                           THEN <<empty_article>> ELSE filtered_articles]

\* news_API_request: resp is the outcome of requests.get, [ok, articles].
news_API_request(resp, covid_terms, key_set) ==
    IF ~resp.ok THEN [err |-> "ConnectionError", articles |-> <<>>]
    ELSE IF ~key_set THEN [err |-> "ValueError", articles |-> <<>>]
    ELSE LET filtered_articles == filter_articles(resp.articles, covid_terms)
         IN  [err |-> "none",
              articles |-> IF Len(filtered_articles) = 0
                           THEN <<empty_article>> ELSE filtered_articles]

\* (A format_article that finds a "url" in every article.)
CanFormat_Always(article) == TRUE

\* format_article: raises KeyError when the article has no "url" key.
CanFormat(article) == article.url # Missing
format_article(article) ==
    [title |-> article.title,
     content |-> IF article.content # <<>>
                 THEN [words |-> Take(article.content, WordLimit),
                       dots |-> TRUE, url |-> article.url]
                 ELSE [words |-> <<>>, dots |-> FALSE, url |-> article.url]]

\* The loop of update_news over the fetched articles.
RECURSIVE AddArticles(_, _, _)
AddArticles(store, blocked, api_articles) ==
    IF api_articles = <<>> THEN [articles |-> store, err |-> "none"]
    ELSE IF ~CanFormat(Head(api_articles))
         THEN [articles |-> store, err |-> "KeyError"]
    ELSE LET formatted_article == format_article(Head(api_articles))
         IN  IF /\ formatted_article \notin Range(store)
                /\ formatted_article.title \notin Range(blocked)
             THEN AddArticles(Append(store, formatted_article), blocked,
                              Tail(api_articles))
             ELSE AddArticles(store, blocked, Tail(api_articles))

\* The loop of block_article: pops while enumerating, so the index moves
\* on over the list as it is after each pop.
RECURSIVE BlockLoop(_, _, _)
BlockLoop(store, title, index) ==
    IF index > Len(store) THEN store
    ELSE IF title = store[index].title
         THEN BlockLoop(RemoveAt(store, index), title, index + 1)
    ELSE BlockLoop(store, title, index + 1)
block_article(store, blocked, title) ==
    [blocked |-> Append(blocked, title), articles |-> BlockLoop(store, title, 1)]

\* ------------------------------------------------------------------------
\* The covid domain
\* ------------------------------------------------------------------------
\* (A placeholder job that repeats.)
DummyJob_Repeating(n) ==
    [name |-> n, time |-> NoneText, repeats |-> "repeat", update |-> NoKey]
DummyJob(n) == [name |-> n, time |-> NoneText, repeats |-> None, update |-> NoKey]

\* (A schedule_covid_updates that cancels the job's queued event first.)
schedule_covid_updates_Replacing(updates, q, update_interval, update_name) ==
    LET known == update_name \in Keys(updates)
        reg == IF known THEN updates ELSE Append(updates, DummyJob(update_name))
        kept == Cancel(q, Get(reg, update_name).update)
        update == FreshId(reg, q)
    IN  [updates |-> SetUpdate(reg, update_name, update),
         q |-> Enter(kept, update_interval, update_name, update),
         warn |-> IF known THEN 0 ELSE 1,
         err |-> "none"]

schedule_covid_updates(updates, q, update_interval, update_name) ==
    LET known == update_name \in Keys(updates)
        reg == IF known THEN updates ELSE Append(updates, DummyJob(update_name))
        update == FreshId(reg, q)
    IN  [updates |-> SetUpdate(reg, update_name, update),
         q |-> Enter(q, update_interval, update_name, update),
         warn |-> IF known THEN 0 ELSE 1,
         err |-> "none"]

create_covid_update(updates, q, update_time, update_name, repeats, now_s, frac) ==
    LET update == [name |-> update_name, time |-> update_time,
                   repeats |-> repeats, update |-> NoKey]
        reg == Put(updates, update_name, update)
    IN  IF ~ValidTime(update_time)
        THEN [updates |-> reg, q |-> q, warn |-> 0, err |-> "ValueError"]
        ELSE schedule_covid_updates(reg, q,
                 DelaySeconds(update_time, now_s, frac), update_name)

\* covid_API_request for the local area, then for the nation: fetch is
\* [fail, data], fail = 0 when both requests succeed, else the number of
\* the request that raises.
FetchCovid(data, fetch) ==
    IF fetch.fail = 1 THEN data
    ELSE IF fetch.fail = 2 THEN [data EXCEPT !.ltla = fetch.data]
    ELSE [ltla |-> fetch.data, nation |-> fetch.data]

\* run_covid_update(*args): the action of a covid event.
run_covid_update(updates, q, data, args, fetch, interval) ==
    IF Len(args) # 1
    THEN [updates |-> updates, q |-> q, data |-> data, warn |-> 0,
          err |-> "TypeError", fetched |-> FALSE]
    ELSE IF fetch.fail # 0
    THEN [updates |-> updates, q |-> q, data |-> FetchCovid(data, fetch),
          warn |-> 0, err |-> "ConnectionError", fetched |-> FALSE]
    ELSE IF args[1] \notin Keys(updates)
    THEN [updates |-> updates, q |-> q, data |-> FetchCovid(data, fetch),
          warn |-> 0, err |-> "KeyError", fetched |-> TRUE]
    ELSE IF Truthy(Get(updates, args[1]).repeats)
    THEN LET r == schedule_covid_updates(updates, q, interval, args[1])
         IN  [updates |-> r.updates, q |-> r.q, data |-> FetchCovid(data, fetch),
              warn |-> r.warn, err |-> "none", fetched |-> TRUE]
    ELSE [updates |-> Pop(updates, args[1]), q |-> q,
          data |-> FetchCovid(data, fetch), warn |-> 0, err |-> "none",
          fetched |-> TRUE]

\* ------------------------------------------------------------------------
\* The news domain
\* ------------------------------------------------------------------------
schedule_news_updates(updates, q, update_interval, update_name) ==
    LET known == update_name \in Keys(updates)
        reg == IF known THEN updates ELSE Append(updates, DummyJob(update_name))
        update == FreshId(reg, q)
    IN  [updates |-> SetUpdate(reg, update_name, update),
         q |-> Enter(q, update_interval, update_name, update),
         warn |-> IF known THEN 0 ELSE 1,
         err |-> "none"]

\* (A create_news_update that stores the job and schedules nothing.)
create_news_update_Unscheduled(updates, q, update_time, update_name, repeats, now_s, frac) ==
    [updates |-> Put(updates, update_name,
                     [name |-> update_name, time |-> update_time,
                      repeats |-> repeats, update |-> NoKey]),
     q |-> q, warn |-> 0, err |-> "none"]

create_news_update(updates, q, update_time, update_name, repeats, now_s, frac) ==
    LET update == [name |-> update_name, time |-> update_time,
                   repeats |-> repeats, update |-> NoKey]
        reg == Put(updates, update_name, update)
    IN  IF ~ValidTime(update_time)
        THEN [updates |-> reg, q |-> q, warn |-> 0, err |-> "ValueError"]
        ELSE schedule_news_updates(reg, q,
                 DelaySeconds(update_time, now_s, frac), update_name)

\* update_news(*args): the action of a news event, and the refresh that
\* runs once when the program starts (args = <<>>).
update_news(store, blocked, updates, q, args, resp, key_set, interval) ==
    IF Len(args) > 1
    THEN [articles |-> store, updates |-> updates, q |-> q, warn |-> 0,
          err |-> "TypeError", fetched |-> FALSE]
    ELSE
    LET update_name == IF Len(args) = 0 THEN NoName ELSE args[1]
        api == news_API_request(resp, SearchTerms, key_set)
        added == AddArticles(store, blocked, api.articles)
    IN  IF api.err # "none"
        THEN [articles |-> store, updates |-> updates, q |-> q, warn |-> 0,
              err |-> api.err, fetched |-> FALSE]
        ELSE IF added.err # "none"
        THEN [articles |-> added.articles, updates |-> updates, q |-> q,
              warn |-> 0, err |-> added.err, fetched |-> TRUE]
        ELSE IF update_name \in Keys(updates)
        THEN IF Truthy(Get(updates, update_name).repeats)
             THEN LET r == schedule_news_updates(updates, q, interval, update_name)
                  IN  [articles |-> added.articles, updates |-> r.updates,
                       q |-> r.q, warn |-> r.warn, err |-> "none",
                       fetched |-> TRUE]
             ELSE [articles |-> added.articles,
                   updates |-> Pop(updates, update_name), q |-> q,
                   warn |-> 0, err |-> "none", fetched |-> TRUE]
        ELSE [articles |-> added.articles, updates |-> updates, q |-> q,
              warn |-> IF TruthyName(update_name) THEN 1 ELSE 0,
              err |-> "none", fetched |-> TRUE]

\* ------------------------------------------------------------------------
\* update_handler
\* ------------------------------------------------------------------------
\* sep.join(parts).  A text is the sequence of its pieces (the characters
\* of a time text, and the literals of the code as one piece each); parts
\* is a sequence of texts.
\* name == row, for a str and a dict: never equal.
NameIsRow(name, row) == FALSE

RECURSIVE Join(_, _)
Join(sep, parts) ==
    IF parts = <<>> THEN <<>>
    ELSE IF Len(parts) = 1 THEN parts[1]
    ELSE parts[1] \o <<sep>> \o Join(sep, Tail(parts))

\* "Covid"*covid: the text, or the empty text for False.
Times(text, flag) == IF flag THEN <<text>> ELSE <<>>

\* format_update: [time, "Updates " + " & ".join(...), repeat clause]
\* joined with ", ".
format_update(update, covid, news) ==
    LET updated_data == SelectSeq(<<Times("Covid", covid), Times("News", news)>>,
                                  LAMBDA x : x # <<>>)
        data == << update.time,
                   <<"Updates ">> \o Join(" & ", updated_data),
                   << IF Truthy(update.repeats) THEN "Repeats"
                      ELSE "Doesn't Repeat" >> >>
    IN  Join(", ", data)

\* The loop of format_updates over all_updates.items(): `name not in
\* updates` compares the name with the rows of the list.
RECURSIVE FormatLoop(_, _, _, _)
FormatLoop(rows, all_updates, c_updates, n_updates) ==
    IF all_updates = <<>> THEN rows
    ELSE LET name == Head(all_updates).name
             is_covid == name \in Keys(c_updates)
             is_news == name \in Keys(n_updates)
             content == format_update(Head(all_updates), is_covid, is_news)
             update == [title |-> name, content |-> content]
         IN  FormatLoop(IF \A k \in 1..Len(rows) : ~NameIsRow(name, rows[k])
                        THEN Append(rows, update) ELSE rows,
                        Tail(all_updates), c_updates, n_updates)

\* (A format_updates that does not clear the list before it rebuilds it.)
format_updates_NoClear(rows, c_updates, n_updates) ==
    FormatLoop(rows, Merge(c_updates, n_updates), c_updates, n_updates)

\* format_updates: updates.clear(), then one row per key of
\* {**covid_updates, **news_updates}; rows is the list as it was.
format_updates(rows, c_updates, n_updates) ==
    FormatLoop(<<>>, Merge(c_updates, n_updates), c_updates, n_updates)

\* (A uniqueness test that looks at the covid registry only.)
NameIsNew_CovidOnly(name, c_updates, n_updates) == name \notin Keys(c_updates)

\* The uniqueness test of create_update.
NameIsNew(name, c_updates, n_updates) == name \notin Keys(Merge(c_updates, n_updates))

\* (A create_update that warns about a known name and creates all the same.)
create_update_Overwrites(c_updates, c_q, n_updates, n_q, sched_time, name, update_covid, update_news_, repeats, now_s, frac) ==
    LET c == IF update_covid
             THEN create_covid_update(c_updates, c_q, sched_time, name,
                                      repeats, now_s, frac)
             ELSE [updates |-> c_updates, q |-> c_q, warn |-> 0, err |-> "none"]
        n == IF update_news_ /\ c.err = "none"
             THEN create_news_update(n_updates, n_q, sched_time, name,
                                     repeats, now_s, frac)
             ELSE [updates |-> n_updates, q |-> n_q, warn |-> 0, err |-> "none"]
    IN  [cu |-> c.updates, cq |-> c.q, nu |-> n.updates, nq |-> n.q,
         warn |-> IF NameIsNew(name, c_updates, n_updates)
                  THEN c.warn + n.warn
                       + (IF ~update_covid /\ ~update_news_ THEN 1 ELSE 0)
                  ELSE 1,
         err |-> IF c.err # "none" THEN c.err ELSE n.err]

\* create_update(sched_time) with the request's parameters.
create_update(c_updates, c_q, n_updates, n_q, sched_time, name, update_covid, update_news_, repeats, now_s, frac) ==
    LET same == [cu |-> c_updates, cq |-> c_q, nu |-> n_updates, nq |-> n_q]
    IN
    IF NameIsNew(name, c_updates, n_updates)
    THEN LET c == IF update_covid
                  THEN create_covid_update(c_updates, c_q, sched_time, name,
                                           repeats, now_s, frac)
                  ELSE [updates |-> c_updates, q |-> c_q, warn |-> 0, err |-> "none"]
             n == IF update_news_ /\ c.err = "none"
                  THEN create_news_update(n_updates, n_q, sched_time, name,
                                          repeats, now_s, frac)
                  ELSE [updates |-> n_updates, q |-> n_q, warn |-> 0, err |-> "none"]
         IN  [cu |-> c.updates, cq |-> c.q, nu |-> n.updates, nq |-> n.q,
              warn |-> c.warn + n.warn
                       + (IF ~update_covid /\ ~update_news_ THEN 1 ELSE 0),
              err |-> IF c.err # "none" THEN c.err ELSE n.err]
    ELSE same @@ [warn |-> 1, err |-> "none"]

\* The two halves of remove_update: each cancels the job's event and pops
\* the job; an absent "update" key raises KeyError, a cancel of an event
\* that is not queued raises ValueError, and the job is then not popped.
\* (A half that looks the name up without testing that it is a key.)
RemoveFrom_Unguarded(reg, q, name) ==
    IF name \notin Keys(reg) THEN [updates |-> reg, q |-> q, err |-> "KeyError"]
    ELSE IF Get(reg, name).update = NoKey
    THEN [updates |-> reg, q |-> q, err |-> "KeyError"]
    ELSE IF ~CanCancel(q, Get(reg, name).update)
    THEN [updates |-> reg, q |-> q, err |-> "ValueError"]
    ELSE [updates |-> Pop(reg, name), q |-> Cancel(q, Get(reg, name).update),
          err |-> "none"]

RemoveFrom_NoCancel(reg, q, name) ==
    IF name \notin Keys(reg) THEN [updates |-> reg, q |-> q, err |-> "none"]
    ELSE IF Get(reg, name).update = NoKey
    THEN [updates |-> reg, q |-> q, err |-> "KeyError"]
    ELSE [updates |-> Pop(reg, name), q |-> q, err |-> "none"]

RemoveFrom(reg, q, name) ==
    IF name \notin Keys(reg) THEN [updates |-> reg, q |-> q, err |-> "none"]
    ELSE IF Get(reg, name).update = NoKey
    THEN [updates |-> reg, q |-> q, err |-> "KeyError"]
    ELSE IF ~CanCancel(q, Get(reg, name).update)
    THEN [updates |-> reg, q |-> q, err |-> "ValueError"]
    ELSE [updates |-> Pop(reg, name), q |-> Cancel(q, Get(reg, name).update),
          err |-> "none"]

remove_update(c_updates, c_q, n_updates, n_q, name) ==
    LET c == RemoveFrom(c_updates, c_q, name)
        n == IF c.err = "none" THEN RemoveFrom(n_updates, n_q, name)
             ELSE [updates |-> n_updates, q |-> n_q, err |-> "none"]
    IN  [cu |-> c.updates, cq |-> c.q, nu |-> n.updates, nq |-> n.q,
         err |-> IF c.err # "none" THEN c.err ELSE n.err]

\* ------------------------------------------------------------------------
\* State
\* ------------------------------------------------------------------------
VARIABLES
    covid_updates,     \* cdh.covid_updates
    news_updates,      \* cnh.news_updates
    covid_s,           \* the queue of cdh.s
    news_s,            \* the queue of cnh.s
    covid_data,        \* cdh.covid_data, [ltla, nation]
    news_articles,     \* cnh.news_articles
    blocked_articles,  \* cnh.blocked_articles
    updates,           \* update_handler.updates
    key_set,           \* config.json: news_API_key is not "[API_KEY_HERE]"
    tod,               \* the time of day, in whole seconds
    pc,                \* where the request handler index() stands
    last               \* the step taken last, and what it observed

vars == <<covid_updates, news_updates, covid_s, news_s, covid_data,
          news_articles, blocked_articles, updates, key_set, tod, pc, last>>

\* Versions of the data served by the covid API.
DataVals == { "d1", "d2" }
CovidFetches == [fail : 0..2, data : DataVals]

\* What a step records: the operation, its name argument (the argument
\* of the event, for a scheduled action), the arguments a scheduled action
\* was called with, the exception that ended the operation, and the number
\* of warnings it logged, and whether the name was a key of a registry
\* when the operation began.  For a function called directly: whether the
\* step before was a call of the same function, and what the call returned.
\* gone: the jobs, as <<domain, name>>, that the request under way has popped
\* from their registries so far, by remove_update or by a firing.
NoStep ==
    [op |-> "none", name |-> <<>>, args |-> <<>>, err |-> "none", warn |-> 0,
     had |-> FALSE, again |-> FALSE, res |-> <<>>, gone |-> {}]

\* The jobs popped between two values of the registry of a domain.
Popped(domain, before, after) ==
    { <<domain, n>> : n \in Keys(before) \ Keys(after) }

AllKeys == Keys(covid_updates) \cup Keys(news_updates)

\* The state after the module body of main.py ran: the covid data and the
\* first news refresh were fetched without error.
InitWith(batches) ==
    /\ covid_updates = <<>>
    /\ news_updates = <<>>
    /\ covid_s = <<>>
    /\ news_s = <<>>
    /\ \E d \in DataVals : covid_data = [ltla |-> d, nation |-> d]
    /\ \E batch \in batches :
         LET r == update_news(<<>>, <<>>, <<>>, <<>>, <<>>,
                              [ok |-> TRUE, articles |-> batch], TRUE, 0)
         IN  r.err = "none" /\ news_articles = r.articles
    /\ blocked_articles = <<>>
    /\ updates = <<>>
    /\ key_set = TRUE
    /\ tod = 0
    /\ pc = "idle"
    /\ last = NoStep

\* ------------------------------------------------------------------------
\* index(): the event of the request
\* ------------------------------------------------------------------------
\* /index?update=<sched_time>&two=<name>&covid-data=..&news=..&repeat=..
\* An exception ends the request: nothing after it runs.
CreateUpdate(sched_time, name, update_covid, update_news_, repeats, frac) ==
    /\ pc = "idle"
    /\ (NameIsNew(name, covid_updates, news_updates) /\ update_covid)
          => Len(covid_updates) < MaxJobs
    /\ (NameIsNew(name, covid_updates, news_updates) /\ update_news_)
          => Len(news_updates) < MaxJobs
    /\ LET r == create_update(covid_updates, covid_s, news_updates, news_s,
                              sched_time, name, update_covid, update_news_,
                              repeats, tod, frac)
       IN  /\ covid_updates' = r.cu
           /\ covid_s' = r.cq
           /\ news_updates' = r.nu
           /\ news_s' = r.nq
           /\ pc' = IF r.err = "none" THEN "covid_sweep" ELSE "idle"
           /\ last' = [NoStep EXCEPT !.op = "create_update", !.name = name,
                          !.err = r.err, !.warn = r.warn,
                          !.had = name \in AllKeys]
    /\ UNCHANGED <<covid_data, news_articles, blocked_articles, updates, key_set, tod>>

\* /index?update_item=<name>, taken when the name is truthy.
RemoveUpdate(name) ==
    /\ pc = "idle"
    /\ TruthyName(name)
    /\ LET r == remove_update(covid_updates, covid_s, news_updates, news_s, name)
       IN  /\ covid_updates' = r.cu
           /\ covid_s' = r.cq
           /\ news_updates' = r.nu
           /\ news_s' = r.nq
           /\ pc' = IF r.err = "none" THEN "covid_sweep" ELSE "idle"
           /\ last' = [NoStep EXCEPT !.op = "remove_update", !.name = name,
                          !.err = r.err, !.had = name \in AllKeys,
                          !.gone = Popped("covid", covid_updates, r.cu)
                                      \cup Popped("news", news_updates, r.nu)]
    /\ UNCHANGED <<covid_data, news_articles, blocked_articles, updates, key_set, tod>>

\* /index?notif=<title>
BlockArticle(title) ==
    /\ pc = "idle"
    /\ Len(blocked_articles) < MaxBlocked
    /\ LET r == block_article(news_articles, blocked_articles, title)
       IN  /\ news_articles' = r.articles
           /\ blocked_articles' = r.blocked
    /\ pc' = "covid_sweep"
    /\ last' = [NoStep EXCEPT !.op = "block_article", !.name = title]
    /\ UNCHANGED <<covid_updates, news_updates, covid_s, news_s, covid_data,
                   updates, key_set, tod>>

\* /index without an event parameter.
PlainRequest ==
    /\ pc = "idle"
    /\ pc' = "covid_sweep"
    /\ last' = NoStep
    /\ UNCHANGED <<covid_updates, news_updates, covid_s, news_s, covid_data,
                   news_articles, blocked_articles, updates, key_set, tod>>

\* ------------------------------------------------------------------------
\* index(): cdh.s.run(blocking=False) and cnh.s.run(blocking=False)
\* ------------------------------------------------------------------------
\* The head event is due: it is popped and its action is called with the
\* unpacked argument.  An exception of the action leaves run() and index().
CovidFire(fetch, interval) ==
    /\ pc = "covid_sweep"
    /\ HeadDue(covid_s)
    /\   LET ev == Head(covid_s)
             r == run_covid_update(covid_updates, Tail(covid_s), covid_data,
                                   Unpack(ev.arg), fetch, interval)
         IN  /\ covid_updates' = r.updates
             /\ covid_s' = r.q
             /\ covid_data' = r.data
             /\ pc' = IF r.err = "none" THEN "covid_sweep" ELSE "idle"
             /\ last' = [NoStep EXCEPT !.op = "run_covid_update", !.name = ev.arg,
                            !.args = Unpack(ev.arg), !.err = r.err,
                            !.warn = r.warn,
                            !.gone = last.gone \cup
                                Popped("covid", covid_updates, r.updates)]
    /\ UNCHANGED <<news_updates, news_s, news_articles, blocked_articles,
                   updates, key_set, tod>>

\* The queue is empty or its head is not due: run() returns.
CovidSweepEnd ==
    /\ pc = "covid_sweep"
    /\ ~HeadDue(covid_s)
    /\ pc' = "news_sweep"
    /\ last' = [NoStep EXCEPT !.gone = last.gone]
    /\ UNCHANGED <<covid_updates, news_updates, covid_s, news_s, covid_data,
                   news_articles, blocked_articles, updates, key_set, tod>>

NewsFire(resp, interval) ==
    /\ pc = "news_sweep"
    /\ HeadDue(news_s)
    /\   LET ev == Head(news_s)
             r == update_news(news_articles, blocked_articles, news_updates,
                              Tail(news_s), Unpack(ev.arg), resp,
                              key_set, interval)
         IN  /\ news_articles' = r.articles
             /\ news_updates' = r.updates
             /\ news_s' = r.q
             /\ pc' = IF r.err = "none" THEN "news_sweep" ELSE "idle"
             /\ last' = [NoStep EXCEPT !.op = "update_news", !.name = ev.arg,
                            !.args = Unpack(ev.arg), !.err = r.err,
                            !.warn = r.warn,
                            !.gone = last.gone \cup
                                Popped("news", news_updates, r.updates)]
    /\ UNCHANGED <<covid_updates, covid_s, covid_data, blocked_articles,
                   updates, key_set, tod>>

NewsSweepEnd ==
    /\ pc = "news_sweep"
    /\ ~HeadDue(news_s)
    /\ pc' = "format"
    /\ last' = [NoStep EXCEPT !.gone = last.gone]
    /\ UNCHANGED <<covid_updates, news_updates, covid_s, news_s, covid_data,
                   news_articles, blocked_articles, updates, key_set, tod>>

\* ------------------------------------------------------------------------
\* index(): update_handler.format_updates(), then the page is rendered
\* ------------------------------------------------------------------------
FormatUpdates ==
    /\ pc = "format"
    /\ updates' = format_updates(updates, covid_updates, news_updates)
    /\ pc' = "idle"
    /\ last' = [NoStep EXCEPT !.op = "format_updates", !.gone = last.gone]
    /\ UNCHANGED <<covid_updates, news_updates, covid_s, news_s, covid_data,
                   news_articles, blocked_articles, key_set, tod>>

\* ------------------------------------------------------------------------
\* The environment between two requests
\* ------------------------------------------------------------------------
\* Time passes: time.time() and datetime.now() move on by one clock step.
Advance ==
    /\ pc = "idle"
    /\ tod' = (tod + TimeStep) % SecondsPerDay
    /\ covid_s' = Elapse(covid_s, TimeStep)
    /\ news_s' = Elapse(news_s, TimeStep)
    /\ last' = NoStep
    /\ UNCHANGED <<covid_updates, news_updates, covid_data, news_articles,
                   blocked_articles, updates, key_set, pc>>

\* config.json is edited: the news API key is set or reset to the
\* placeholder.  read_config reads the file on every call, and the update
\* intervals it returns are inputs of the firing that reads them.
EditConfig ==
    /\ pc = "idle"
    /\ key_set' = ~key_set
    /\ last' = NoStep
    /\ UNCHANGED <<covid_updates, news_updates, covid_s, news_s, covid_data,
                   news_articles, blocked_articles, updates, tod, pc>>

\* ------------------------------------------------------------------------
\* The dashboard with its update requests: the news API key stays set and
\* the news API serves one relevant or one irrelevant article.
\* ------------------------------------------------------------------------
FewBatches == { <<ArticleCo1>>, <<ArticleX>> }

Init == InitWith(FewBatches)

Next ==
    \/ \E sched_time \in TimeTexts, name \in Names, update_covid \in BOOLEAN,
          update_news_ \in BOOLEAN, repeats \in RepeatVals, frac \in Fracs :
          CreateUpdate(sched_time, name, update_covid, update_news_, repeats, frac)
    \/ \E name \in Names : RemoveUpdate(name)
    \/ PlainRequest
    \/ \E fetch \in CovidFetches, interval \in Intervals : CovidFire(fetch, interval)
    \/ CovidSweepEnd
    \/ \E resp \in ResponsesOf(FewBatches), interval \in Intervals :
          NewsFire(resp, interval)
    \/ NewsSweepEnd
    \/ FormatUpdates
    \/ Advance

Spec == Init /\ [][Next]_vars

\* The steps of index() after the event of the request: a request that has
\* begun goes on, statement after statement, until it returns or raises.
Handler ==
    \/ \E fetch \in CovidFetches, interval \in Intervals : CovidFire(fetch, interval)
    \/ CovidSweepEnd
    \/ \E resp \in ResponsesOf(FewBatches), interval \in Intervals :
          NewsFire(resp, interval)
    \/ NewsSweepEnd
    \/ FormatUpdates

SpecFair == Init /\ [][Next]_vars /\ WF_vars(Handler)

\* ------------------------------------------------------------------------
\* The dashboard with every kind of news batch, with blocking, with the
\* news API key being reset and with time texts that are no times: one job
\* name, both domains.
\* ------------------------------------------------------------------------
NewsNames == { <<"a">> }

InitNews == InitWith(Batches)

NextNews ==
    \/ \E sched_time \in AnyTimeTexts, name \in NewsNames, update_covid \in BOOLEAN,
          update_news_ \in BOOLEAN, repeats \in RepeatVals, frac \in Fracs :
          CreateUpdate(sched_time, name, update_covid, update_news_, repeats, frac)
    \/ \E name \in NewsNames : RemoveUpdate(name)
    \/ \E title \in BlockTitles : BlockArticle(title)
    \/ PlainRequest
    \/ \E fetch \in CovidFetches, interval \in Intervals : CovidFire(fetch, interval)
    \/ CovidSweepEnd
    \/ \E resp \in ResponsesOf(Batches), interval \in Intervals :
          NewsFire(resp, interval)
    \/ NewsSweepEnd
    \/ FormatUpdates
    \/ Advance
    \/ EditConfig

SpecNews == InitNews /\ [][NextNews]_vars

\* ------------------------------------------------------------------------
\* The functions of the two domains called directly, as the repository's
\* tests call them, between two requests
\* ------------------------------------------------------------------------
ScheduleCovid(update_interval, update_name) ==
    /\ pc = "idle"
    /\ Len(covid_s) < MaxQueue
    /\ update_name \notin Keys(covid_updates) => Len(covid_updates) < MaxApiJobs
    /\ LET r == schedule_covid_updates(covid_updates, covid_s,
                                       update_interval, update_name)
       IN  /\ covid_updates' = r.updates
           /\ covid_s' = r.q
           /\ last' = [NoStep EXCEPT !.op = "schedule_covid_updates",
                          !.name = update_name, !.warn = r.warn, !.err = r.err,
                          !.had = update_name \in Keys(covid_updates)]
    /\ UNCHANGED <<news_updates, news_s, covid_data, news_articles,
                   blocked_articles, updates, key_set, tod, pc>>

ScheduleNews(update_interval, update_name) ==
    /\ pc = "idle"
    /\ Len(news_s) < MaxQueue
    /\ update_name \notin Keys(news_updates) => Len(news_updates) < MaxApiJobs
    /\ LET r == schedule_news_updates(news_updates, news_s,
                                      update_interval, update_name)
       IN  /\ news_updates' = r.updates
           /\ news_s' = r.q
           /\ last' = [NoStep EXCEPT !.op = "schedule_news_updates",
                          !.name = update_name, !.warn = r.warn, !.err = r.err,
                          !.had = update_name \in Keys(news_updates)]
    /\ UNCHANGED <<covid_updates, covid_s, covid_data, news_articles,
                   blocked_articles, updates, key_set, tod, pc>>

\* create_covid_update / create_news_update called directly.
CreateCovid(update_time, update_name, repeats, frac) ==
    /\ pc = "idle"
    /\ Len(covid_s) < MaxQueue
    /\ update_name \notin Keys(covid_updates) => Len(covid_updates) < MaxApiJobs
    /\ LET r == create_covid_update(covid_updates, covid_s, update_time,
                                    update_name, repeats, tod, frac)
       IN  /\ covid_updates' = r.updates
           /\ covid_s' = r.q
           /\ last' = [NoStep EXCEPT !.op = "create_covid_update",
                          !.name = update_name, !.warn = r.warn, !.err = r.err,
                          !.had = update_name \in Keys(covid_updates)]
    /\ UNCHANGED <<news_updates, news_s, covid_data, news_articles,
                   blocked_articles, updates, key_set, tod, pc>>

CreateNews(update_time, update_name, repeats, frac) ==
    /\ pc = "idle"
    /\ Len(news_s) < MaxQueue
    /\ update_name \notin Keys(news_updates) => Len(news_updates) < MaxApiJobs
    /\ LET r == create_news_update(news_updates, news_s, update_time,
                                   update_name, repeats, tod, frac)
       IN  /\ news_updates' = r.updates
           /\ news_s' = r.q
           /\ last' = [NoStep EXCEPT !.op = "create_news_update",
                          !.name = update_name, !.warn = r.warn, !.err = r.err,
                          !.had = update_name \in Keys(news_updates)]
    /\ UNCHANGED <<covid_updates, covid_s, covid_data, news_articles,
                   blocked_articles, updates, key_set, tod, pc>>

\* The job names of the direct calls: one character, several characters.
ApiNames == { <<"a">>, <<"a", "b">> }

NextApi ==
    \/ \E update_interval \in Intervals, update_name \in ApiNames :
          ScheduleCovid(update_interval, update_name)
    \/ \E update_interval \in Intervals, update_name \in ApiNames :
          ScheduleNews(update_interval, update_name)
    \/ \E update_time \in TimeTexts, update_name \in ApiNames,
          repeats \in RepeatVals, frac \in Fracs :
          CreateCovid(update_time, update_name, repeats, frac)
    \/ \E update_time \in TimeTexts, update_name \in ApiNames,
          repeats \in RepeatVals, frac \in Fracs :
          CreateNews(update_time, update_name, repeats, frac)
    \/ Advance

SpecApi == Init /\ [][NextApi]_vars

\* ------------------------------------------------------------------------
\* The schedule functions called directly for one job name and a delay of
\* zero seconds, between requests whose sweeps fire the events
\* ------------------------------------------------------------------------
FireNames == { <<"a">> }

NextFire ==
    \/ \E update_name \in FireNames : ScheduleCovid(0, update_name)
    \/ \E update_name \in FireNames : ScheduleNews(0, update_name)
    \/ PlainRequest
    \/ \E fetch \in CovidFetches, interval \in Intervals : CovidFire(fetch, interval)
    \/ CovidSweepEnd
    \/ \E resp \in ResponsesOf(FewBatches), interval \in Intervals :
          NewsFire(resp, interval)
    \/ NewsSweepEnd
    \/ FormatUpdates

SpecFire == Init /\ [][NextFire]_vars

\* ------------------------------------------------------------------------
\* format_updates() called on registries of up to MaxRows jobs each.  The
\* jobs are left from earlier calls of the create and schedule functions;
\* their events were consumed by firings that failed, so both queues are
\* empty and every handle is stale.
\* ------------------------------------------------------------------------
\* The time text and the repeat value of a job.
RowKinds ==
    { [time |-> T1200, repeats |-> "repeat"],
      [time |-> T1200, repeats |-> ""],
      [time |-> NoneText, repeats |-> None] }
\* The registries: dicts of up to MaxRows jobs, each key once.
Registries ==
    { [i \in 1..Len(ns) |->
          [name |-> ns[i], time |-> ks[i].time, repeats |-> ks[i].repeats,
           update |-> i]] :
      <<ns, ks>> \in
          { p \in SeqsUpTo(Names, MaxRows) \X SeqsUpTo(RowKinds, MaxRows) :
              /\ Len(p[1]) = Len(p[2])
              /\ \A i, j \in 1..Len(p[1]) : i # j => p[1][i] # p[1][j] } }

InitFormat ==
    /\ covid_updates \in Registries
    /\ news_updates \in Registries
    /\ covid_s = <<>>
    /\ news_s = <<>>
    /\ covid_data = [ltla |-> "d1", nation |-> "d1"]
    /\ news_articles = <<format_article(ArticleCo1)>>
    /\ blocked_articles = <<>>
    /\ updates = <<>>
    /\ key_set = TRUE
    /\ tod = 0
    /\ pc = "idle"
    /\ last = NoStep

\* update_handler.format_updates() called on its own.
FormatUpdatesCall ==
    /\ pc = "idle"
    /\ updates' = format_updates(updates, covid_updates, news_updates)
    /\ last' = [NoStep EXCEPT !.op = "format_updates",
                   !.again = (last.op = "format_updates")]
    /\ UNCHANGED <<covid_updates, news_updates, covid_s, news_s, covid_data,
                   news_articles, blocked_articles, key_set, tod, pc>>

NextFormat == FormatUpdatesCall

SpecFormat == InitFormat /\ [][NextFormat]_vars

\* ------------------------------------------------------------------------
\* filter_articles called on its own, on batches of raw articles and on
\* search-term texts
\* ------------------------------------------------------------------------
TitleVx == <<"V", "x">>
ArticleVx == [title |-> TitleVx, content |-> <<>>, url |-> "u4"]
FilterBatches == SeqsUpTo(Catalog \cup { ArticleVx }, MaxBatch)
\* The search-term texts: "", " ", "co", "CO", "co V", "z", "x<tab>co", "v X".
TermTexts ==
    { <<>>, <<" ">>, <<"c", "o">>, <<"C", "O">>, SearchTerms, <<"z">>,
      <<"x", "\t", "c", "o">>, <<"v", " ", "X">> }

FilterCall(articles, search_terms) ==
    /\ pc = "idle"
    /\ last' = [NoStep EXCEPT !.op = "filter_articles", !.name = search_terms,
                   !.args = articles,
                   !.res = filter_articles(articles, search_terms)]
    /\ UNCHANGED <<covid_updates, news_updates, covid_s, news_s, covid_data,
                   news_articles, blocked_articles, updates, key_set, tod, pc>>

NextFilter ==
    \E articles \in FilterBatches, search_terms \in TermTexts :
        FilterCall(articles, search_terms)

SpecFilter == Init /\ [][NextFilter]_vars

\* ------------------------------------------------------------------------
\* create_covid_update() and create_news_update() called at several times
\* of the day, with and without a sub-second part of datetime.now()
\* ------------------------------------------------------------------------
\* Times of the day of the process: midnight, noon, their neighbours.
NowTimes == { 0, 1, 43199, 43200, 43201, 86399 }
T0000 == <<"0", "0", ":", "0", "0">>
T2359 == <<"2", "3", ":", "5", "9">>
DelayTexts == { T0000, T1200, T2359 }
DelayFracs == { 0, 1 }
DelayNames == { <<"a">> }

InitDelay ==
    /\ covid_updates = <<>>
    /\ news_updates = <<>>
    /\ covid_s = <<>>
    /\ news_s = <<>>
    /\ covid_data = [ltla |-> "d1", nation |-> "d1"]
    /\ LET r == update_news(<<>>, <<>>, <<>>, <<>>, <<>>,
                            [ok |-> TRUE, articles |-> <<ArticleCo1>>], TRUE, 0)
       IN  r.err = "none" /\ news_articles = r.articles
    /\ blocked_articles = <<>>
    /\ updates = <<>>
    /\ key_set = TRUE
    /\ tod \in NowTimes
    /\ pc = "idle"
    /\ last = NoStep

NextDelay ==
    \/ \E update_time \in DelayTexts, update_name \in DelayNames, frac \in DelayFracs :
          CreateCovid(update_time, update_name, None, frac)
    \/ \E update_time \in DelayTexts, update_name \in DelayNames, frac \in DelayFracs :
          CreateNews(update_time, update_name, None, frac)

SpecDelay == InitDelay /\ [][NextDelay]_vars

\* ------------------------------------------------------------------------
\* Properties of the registries and of the update requests
\* ------------------------------------------------------------------------
InCovid(n) == n \in Keys(covid_updates)
InNews(n) == n \in Keys(news_updates)
InBoth(n) == InCovid(n) /\ InNews(n)
\* The number of jobs a registry holds under a name.
JobCount(reg, n) == Cardinality({ i \in 1..Len(reg) : reg[i].name = n })
\* The name has exactly one queued event, and the job's handle is that event.
OneLive(reg, q, n) ==
    /\ Cardinality(Live(q, n)) = 1
    /\ \A i \in Live(q, n) : q[i].id = Get(reg, n).update

\* C1 (as claimed): no job name is a key of covid_updates and of
\* news_updates at the same time.
C1_NoSharedName == \A n \in Names : ~InBoth(n)

\* C1 (amended): a job name becomes a key of both registries only by one
\* create_update request for that name, made while the name was a key of
\* neither registry; no step adds a name to one registry while it is a key
\* of the other.
C1_SharedOnlyByOneCreate ==
    [][\A n \in Names :
          (InBoth(n)' /\ ~InBoth(n)) =>
              /\ last'.op = "create_update"
              /\ last'.name = n
              /\ ~InCovid(n)
              /\ ~InNews(n)]_vars

\* C1 witness: a create_update has just put its name into both registries.
C1_Witness ==
    /\ last.op = "create_update"
    /\ ~last.had
    /\ InBoth(last.name)

\* C2 (as claimed): remove_update never raises.
C2_RemoveNeverRaises == last.op = "remove_update" => last.err = "none"

\* C3: a create_update with a valid time and a name that is in neither
\* registry leaves exactly one job under the name in each requested
\* registry and none in a registry that was not requested, and each
\* created job has exactly one queued event, which its handle refers to.
C3_CreateYieldsJobAndCallback ==
    [][\A sched_time \in TimeTexts, name \in Names, update_covid \in BOOLEAN,
          update_news_ \in BOOLEAN, repeats \in RepeatVals, frac \in Fracs :
          ( /\ last'.op = "create_update"
            /\ ValidTime(sched_time)
            /\ name \notin AllKeys
            /\ CreateUpdate(sched_time, name, update_covid, update_news_,
                            repeats, frac) )
          =>
          /\ JobCount(covid_updates', name) = (IF update_covid THEN 1 ELSE 0)
          /\ JobCount(news_updates', name) = (IF update_news_ THEN 1 ELSE 0)
          /\ update_covid => OneLive(covid_updates', covid_s', name)
          /\ update_news_ => OneLive(news_updates', news_s', name)]_vars

\* C3 witness: a create_update for a new name has just made a job with one
\* live callback in each domain.
C3_Witness ==
    /\ last.op = "create_update"
    /\ ~last.had
    /\ last.err = "none"
    /\ InBoth(last.name)
    /\ OneLive(covid_updates, covid_s, last.name)
    /\ OneLive(news_updates, news_s, last.name)

\* C6 (as claimed): a fired action is called with exactly one argument,
\* the job's name.
C6_ActionGetsTheName ==
    last.op \in {"run_covid_update", "update_news"} => last.args = <<last.name>>

\* C7: a create_update whose name is a key of a registry changes neither
\* registry and neither queue, and logs exactly one warning.
C7_KnownNameIsRejected ==
    [][\A sched_time \in TimeTexts, name \in Names, update_covid \in BOOLEAN,
          update_news_ \in BOOLEAN, repeats \in RepeatVals, frac \in Fracs :
          ( /\ last'.op = "create_update"
            /\ name \in AllKeys
            /\ CreateUpdate(sched_time, name, update_covid, update_news_,
                            repeats, frac) )
          =>
          /\ UNCHANGED <<covid_updates, news_updates, covid_s, news_s>>
          /\ last'.warn = 1
          /\ last'.err = "none"]_vars

\* C7 witness: a create_update for a name that was a key has just returned.
C7_Witness ==
    /\ last.op = "create_update"
    /\ last.had
    /\ last.name \in AllKeys

\* C8: a remove_update whose name is a key of neither registry raises
\* nothing and changes no registry, no queue, no article and no blocked
\* title.
C8_UnknownNameIsNoOp ==
    [][\A name \in Names :
          (RemoveUpdate(name) /\ name \notin AllKeys)
          =>
          /\ last'.err = "none"
          /\ UNCHANGED <<covid_updates, news_updates, covid_s, news_s,
                         news_articles, blocked_articles>>]_vars

\* C8 witness: a remove_update for an unknown name has just returned while
\* a job of another name is scheduled.
C8_Witness ==
    /\ last.op = "remove_update"
    /\ ~last.had
    /\ AllKeys # {}
    /\ Len(covid_s) + Len(news_s) > 0

\* C9 (as claimed): after remove_update for a name that is a key of a
\* registry, the name is a key of neither registry and has no queued event
\* in either queue, and the jobs and events of other names are as before.
C9_RemovedIsGone ==
    [][\A name \in Names :
          (RemoveUpdate(name) /\ name \in AllKeys)
          =>
          /\ ~InCovid(name)'
          /\ ~InNews(name)'
          /\ Live(covid_s', name) = {}
          /\ Live(news_s', name) = {}
          /\ SelectSeq(covid_updates, LAMBDA j : j.name # name) = covid_updates'
          /\ SelectSeq(news_updates, LAMBDA j : j.name # name) = news_updates'
          /\ SelectSeq(covid_s, LAMBDA e : e.arg # name) = covid_s'
          /\ SelectSeq(news_s, LAMBDA e : e.arg # name) = news_s']_vars

\* ------------------------------------------------------------------------
\* Properties of scheduling and firing
\* ------------------------------------------------------------------------
\* C4 (as claimed): after a call of schedule_covid_updates or
\* schedule_news_updates the domain's queue holds exactly one event for the
\* name.
C4_OneCallbackAfterSchedule ==
    /\ last.op = "schedule_covid_updates" => Cardinality(Live(covid_s, last.name)) = 1
    /\ last.op = "schedule_news_updates" => Cardinality(Live(news_s, last.name)) = 1

\* What one call of a schedule function does to its domain: the name is a
\* key, its queue holds one event more for the name than before, and the
\* job's handle is a queued event of the name that was not queued before.
ScheduledOneMore(reg, q, reg2, q2, n) ==
    /\ JobCount(reg2, n) = 1
    /\ Cardinality(Live(q2, n)) = Cardinality(Live(q, n)) + 1
    /\ Get(reg2, n).update \notin EventIds(q)
    /\ \E i \in Live(q2, n) : q2[i].id = Get(reg2, n).update

\* C4 (amended): a call of schedule_covid_updates or schedule_news_updates
\* adds exactly one event for the name to the domain's queue and makes the
\* job's handle refer to it; events the name already had stay queued, so
\* the queue holds exactly one event for the name only when it held none
\* before the call.
C4_ScheduleAddsOneCallback ==
    [][\A update_interval \in Intervals, update_name \in Names :
          /\ ScheduleCovid(update_interval, update_name)
                => ScheduledOneMore(covid_updates, covid_s,
                                    covid_updates', covid_s', update_name)
          /\ ScheduleNews(update_interval, update_name)
                => ScheduledOneMore(news_updates, news_s,
                                    news_updates', news_s', update_name)]_vars

\* C4 witness: a schedule call has just returned for a name that had a
\* queued event before: the name now has two.
C4_Witness ==
    \/ /\ last.op = "schedule_covid_updates"
       /\ Cardinality(Live(covid_s, last.name)) = 2
    \/ /\ last.op = "schedule_news_updates"
       /\ Cardinality(Live(news_s, last.name)) = 2

\* The state of a domain after the action of the job n fired and its fetch
\* succeeded: a repeating job is still a key and its handle is a new event
\* that is due after the interval; any other job is gone with its events.
AfterFiring(reg, reg2, q2, n, interval) ==
    IF Truthy(Get(reg, n).repeats)
    THEN /\ n \in Keys(reg2)
         /\ Get(reg2, n).update # Get(reg, n).update
         /\ OneLive(reg2, q2, n)
         /\ \A i \in Live(q2, n) : q2[i].time = interval
    ELSE /\ n \notin Keys(reg2)
         /\ Live(q2, n) = {}

\* C5 (as claimed): when the event of a job fires and the domain's fetch
\* succeeds, a repeating job stays in its registry with a new event due
\* after the configured interval, and any other job leaves its registry
\* and has no queued event.
C5_FiredJobRepeatsOrRetires ==
    [][\A interval \in Intervals :
          /\ \A fetch \in CovidFetches :
                ( /\ last'.op = "run_covid_update"
                  /\ CovidFire(fetch, interval)
                  /\ run_covid_update(covid_updates, Tail(covid_s), covid_data,
                         Unpack(Head(covid_s).arg), fetch, interval).fetched
                  /\ Head(covid_s).arg \in Keys(covid_updates) )
                => AfterFiring(covid_updates, covid_updates', covid_s',
                               Head(covid_s).arg, interval)
          /\ \A resp \in ResponsesOf(Batches) :
                ( /\ last'.op = "update_news"
                  /\ NewsFire(resp, interval)
                  /\ update_news(news_articles, blocked_articles, news_updates,
                         Tail(news_s), Unpack(Head(news_s).arg), resp, key_set,
                         interval).fetched
                  /\ Head(news_s).arg \in Keys(news_updates) )
                => AfterFiring(news_updates, news_updates', news_s',
                               Head(news_s).arg, interval)]_vars

\* ------------------------------------------------------------------------
\* Properties of the article store
\* ------------------------------------------------------------------------
\* C10 (as claimed): news_articles never holds two articles with one title.
C10_NoTwoArticlesWithOneTitle ==
    \A i, j \in 1..Len(news_articles) :
        i # j => news_articles[i].title # news_articles[j].title

\* C11 (as claimed): after block_article(title) no stored article has that
\* title, and none has it at any later time: no article of news_articles
\* bears a title of blocked_articles.
C11_BlockedTitleIsGone ==
    \A k \in 1..Len(blocked_articles) :
        \A i \in 1..Len(news_articles) :
            news_articles[i].title # blocked_articles[k]

\* The fetch found no article whose title matches a search term.
NoMatch(resp) == resp.ok /\ filter_articles(resp.articles, SearchTerms) = <<>>

\* C12: a news fetch in which no title matches a search term yields exactly
\* one article, with the title "No relevant articles currently" and empty
\* content, and once update_news has run on that fetch no article with
\* that title is in news_articles.
C12_SentinelOnceAndNeverStored ==
    [][\A resp \in ResponsesOf(FewBatches), interval \in Intervals :
          ( /\ last'.op = "update_news"
            /\ NoMatch(resp)
            /\ key_set
            /\ NewsFire(resp, interval)
            /\ Len(last'.args) <= 1 )
          =>
          LET api == news_API_request(resp, SearchTerms, key_set)
          IN  /\ api.err = "none"
              /\ Len(api.articles) = 1
              /\ api.articles[1].title = SentinelTitle
              /\ api.articles[1].content = <<>>
              /\ \A i \in 1..Len(news_articles') :
                     news_articles'[i].title # SentinelTitle]_vars

\* C12 witness: update_news has just run on a fetch without a matching
\* title (the placeholder ended it, see C20), and the store holds articles
\* and no placeholder.
C12_Witness ==
    /\ last.op = "update_news"
    /\ last.err = "KeyError"
    /\ Len(news_articles) > 0
    /\ \A i \in 1..Len(news_articles) : news_articles[i].title # SentinelTitle

\* ------------------------------------------------------------------------
\* Properties of the display list
\* ------------------------------------------------------------------------
\* C13: a call of format_updates that directly follows a call of
\* format_updates, with no change of a registry in between, leaves the
\* display list as the first call made it: same rows, same order.
C13_FormatTwiceIsFormatOnce ==
    [][(last.op = "format_updates" /\ FormatUpdatesCall) => updates' = updates]_vars

\* C13 witness: format_updates has just been called for the second time in
\* a row, on registries that share a name and hold others.
C13_Witness ==
    /\ last.op = "format_updates"
    /\ last.again
    /\ Len(updates) >= 2
    /\ \E n \in Names : InBoth(n)

\* The names of the jobs of a registry, in insertion order.
NamesOf(reg) == [i \in 1..Len(reg) |-> reg[i].name]
\* The titles the display list is to have: the names of covid_updates in
\* insertion order, then the names that only news_updates has, in its
\* insertion order.
RowTitles ==
    NamesOf(covid_updates)
    \o SelectSeq(NamesOf(news_updates), LAMBDA n : ~InCovid(n))

\* C14: after format_updates the display list has one row per name of the
\* two registries and no other row, the covid names first in the order of
\* covid_updates and then the news-only names in the order of
\* news_updates, and a row's content names Covid exactly when
\* covid_updates has the name and News exactly when news_updates has it.
C14_RowsFollowTheRegistries ==
    last.op = "format_updates" =>
        /\ [i \in 1..Len(updates) |-> updates[i].title] = RowTitles
        /\ \A i, j \in 1..Len(updates) : i # j => updates[i].title # updates[j].title
        /\ { updates[i].title : i \in 1..Len(updates) } = AllKeys
        /\ \A i \in 1..Len(updates) :
              /\ "Covid" \in Range(updates[i].content) <=> InCovid(updates[i].title)
              /\ "News" \in Range(updates[i].content) <=> InNews(updates[i].title)

\* C14 witness: the display list has just been rebuilt from registries
\* whose shared name is the second job of covid_updates and the first of
\* news_updates, and has three rows.
C14_Witness ==
    /\ last.op = "format_updates"
    /\ Len(updates) = 3
    /\ Len(covid_updates) = 2
    /\ Len(news_updates) = 2
    /\ covid_updates[2].name = news_updates[1].name

\* The text format_update is to return for a job and two flags.
RowText(update, covid, news) ==
    update.time
    \o <<", ", "Updates ">>
    \o (IF covid /\ news THEN <<"Covid", " & ", "News">>
        ELSE IF covid THEN <<"Covid">> ELSE <<"News">>)
    \o <<", ">>
    \o (IF update.repeats = None \/ update.repeats = ""
        THEN <<"Doesn't Repeat">> ELSE <<"Repeats">>)

\* C15: for every job and every pair of flags of which one is set,
\* format_update returns "<time>, Updates <types>, <repeat clause>" with
\* the types Covid, News or Covid & News after the flags and the clause
\* Repeats for a truthy repeat value and Doesn't Repeat otherwise.
C15_FormatUpdateText ==
    \A reg \in {covid_updates, news_updates} :
        \A i \in 1..Len(reg), covid \in BOOLEAN, news \in BOOLEAN :
            (covid \/ news) =>
                format_update(reg[i], covid, news) = RowText(reg[i], covid, news)

\* C15 witness: the display list shows a repeating job of both domains
\* and a job with an empty repeat value that does not repeat.
C15_Witness ==
    /\ last.op = "format_updates"
    /\ \E i \in 1..Len(updates) :
          updates[i].content =
              T1200 \o <<", ", "Updates ", "Covid", " & ", "News", ", ", "Repeats">>
    /\ \E i \in 1..Len(updates) :
          /\ updates[i].content =
                 T1200 \o <<", ", "Updates ", "News", ", ", "Doesn't Repeat">>
          /\ Get(news_updates, updates[i].title).repeats = ""

\* ------------------------------------------------------------------------
\* Properties of the article filter
\* ------------------------------------------------------------------------
\* Two characters are one letter, in whatever case.
SameLetter(c, d) ==
    c = d \/ \E i \in 1..26 : {c, d} = {UpperSeq[i], LowerSeq[i]}
\* The characters a..b of the text are one whitespace-separated term.
IsTermAt(text, a, b) ==
    /\ a <= b
    /\ \A m \in a..b : text[m] \notin {" ", "\t", "\n"}
    /\ a = 1 \/ text[a - 1] \in {" ", "\t", "\n"}
    /\ b = Len(text) \/ text[b + 1] \in {" ", "\t", "\n"}
\* The title contains a term of the text, letters compared in any case.
TitleHasTerm(title, text) ==
    \E a, b \in 1..Len(text) :
        /\ IsTermAt(text, a, b)
        /\ \E k \in 0..(Len(title) - (b - a + 1)) :
              \A m \in 0..(b - a) : SameLetter(title[k + 1 + m], text[a + m])

\* C16: filter_articles returns the articles whose title contains one of
\* the whitespace-separated terms, compared in any case, in the order of
\* the input and once for each place in the input, however many terms
\* match; without a term in the text it returns the empty list.
C16_FilterKeepsTheMatches ==
    last.op = "filter_articles" =>
        /\ last.res = SelectSeq(last.args,
                           LAMBDA article : TitleHasTerm(article.title, last.name))
        /\ (\A i \in 1..Len(last.name) : last.name[i] = " ") => last.res = <<>>

\* C16 witness: filter_articles has just returned one of two articles, the
\* one whose title "Vx" both terms of "v X" match in another case.
C16_Witness ==
    /\ last.op = "filter_articles"
    /\ last.name = <<"v", " ", "X">>
    /\ last.args = <<ArticleVx, ArticleCo1>>
    /\ last.res = <<ArticleVx>>

\* ------------------------------------------------------------------------
\* Properties of the failure paths
\* ------------------------------------------------------------------------
\* What a schedule call for a name that is no key does to its domain: the
\* registry gains one job at its end, a placeholder with the time text
\* "None" and the repeat value None, whose handle is the one event the
\* queue gains; the jobs and the events that were there are as before.
PlaceholderAdded(reg, q, reg2, q2, n) ==
    /\ Len(reg2) = Len(reg) + 1
    /\ SubSeq(reg2, 1, Len(reg)) = reg
    /\ reg2[Len(reg2)].name = n
    /\ reg2[Len(reg2)].time = NoneText
    /\ reg2[Len(reg2)].repeats = None
    /\ Len(q2) = Len(q) + 1
    /\ reg2[Len(reg2)].update \notin EventIds(q)
    /\ SelectSeq(q2, LAMBDA ev : ev.id # reg2[Len(reg2)].update) = q
    /\ \E i \in Live(q2, n) : q2[i].id = reg2[Len(reg2)].update

\* C17: schedule_covid_updates / schedule_news_updates called with a name
\* that is no key of the domain's registry does not raise, inserts a
\* placeholder job (time text "None", falsy repeat value) under the name,
\* arms one event for it and logs a warning; no other job is modified.
C17_UnknownNameGetsPlaceholder ==
    [][\A update_interval \in Intervals, update_name \in ApiNames :
          /\ ( /\ update_name \notin Keys(covid_updates)
               /\ ScheduleCovid(update_interval, update_name) )
             => /\ PlaceholderAdded(covid_updates, covid_s,
                                    covid_updates', covid_s', update_name)
                /\ last'.err = "none"
                /\ last'.warn = 1
          /\ ( /\ update_name \notin Keys(news_updates)
               /\ ScheduleNews(update_interval, update_name) )
             => /\ PlaceholderAdded(news_updates, news_s,
                                    news_updates', news_s', update_name)
                /\ last'.err = "none"
                /\ last'.warn = 1]_vars

\* C17 witness: a schedule call for an unknown name has just put a
\* placeholder behind a job that create_news_update made, and the queue
\* holds the events of both.
C17_Witness ==
    /\ last.op = "schedule_news_updates"
    /\ ~last.had
    /\ Len(news_updates) = 2
    /\ news_updates[1].time = T1200
    /\ news_updates[2] = [DummyJob(last.name) EXCEPT !.update = news_updates[2].update]
    /\ Len(news_s) = 2

\* A job of that name, if the registry has one, has a handle, and the
\* handle refers to a queued event.
Armed(reg, q, n) ==
    n \in Keys(reg) =>
        Get(reg, n).update # NoKey /\ CanCancel(q, Get(reg, n).update)

\* C18 (as claimed): a create_update request, whatever its time text, does
\* not raise, and the name it was made for has no job without a queued
\* event in either registry when it returns.
C18_BadTimeDegrades ==
    (last.op = "create_update" /\ ~last.had) =>
        /\ last.err = "none"
        /\ Armed(covid_updates, covid_s, last.name)
        /\ Armed(news_updates, news_s, last.name)

\* C19 (as claimed): an action that fires with a name that is no key of its
\* domain's registry, and whose fetch succeeds, does not raise and leaves
\* the registry as it is.
C19_FiredUnknownNameDegrades ==
    [][\A interval \in Intervals :
          /\ \A fetch \in CovidFetches :
                ( /\ last'.op = "run_covid_update"
                  /\ fetch.fail = 0
                  /\ Len(Head(covid_s).arg) = 1
                  /\ Head(covid_s).arg \notin Keys(covid_updates)
                  /\ CovidFire(fetch, interval) )
                => /\ last'.err = "none"
                   /\ covid_updates' = covid_updates
          /\ \A resp \in ResponsesOf(FewBatches) :
                ( /\ last'.op = "update_news"
                  /\ resp.ok
                  /\ ~NoMatch(resp)
                  /\ key_set
                  /\ Len(Head(news_s).arg) = 1
                  /\ Head(news_s).arg \notin Keys(news_updates)
                  /\ NewsFire(resp, interval) )
                => /\ last'.err = "none"
                   /\ news_updates' = news_updates]_vars

\* C20 (as claimed): an update_news whose fetch succeeds and yields no
\* article with a matching title does not raise, and the sweep that fired
\* it goes on.
C20_EmptyFetchIsNoError ==
    [][\A resp \in ResponsesOf(FewBatches), interval \in Intervals :
          ( /\ last'.op = "update_news"
            /\ NoMatch(resp)
            /\ key_set
            /\ Len(Head(news_s).arg) <= 1
            /\ NewsFire(resp, interval) )
          => /\ last'.err = "none"
             /\ pc' = "news_sweep"]_vars

\* ------------------------------------------------------------------------
\* Properties of the unset news API key
\* ------------------------------------------------------------------------
\* C21: while the news API key is unset, an update_news that a sweep fires
\* ends with a raised error (ValueError once the request was answered),
\* and leaves news_articles, blocked_articles, covid_data, covid_updates
\* and the covid queue as they were.
C21_UnsetKeyRaisesAndKeepsData ==
    [][\A resp \in ResponsesOf(Batches), interval \in Intervals :
          ( /\ last'.op = "update_news"
            /\ ~key_set
            /\ Len(Head(news_s).arg) <= 1
            /\ NewsFire(resp, interval) )
          => /\ last'.err = (IF resp.ok THEN "ValueError" ELSE "ConnectionError")
             /\ UNCHANGED <<news_articles, blocked_articles, covid_data,
                            covid_updates, covid_s>>]_vars

\* C21 witness: update_news has just raised ValueError for the unset key
\* while articles are stored, a title is blocked and a covid job waits.
C21_Witness ==
    /\ last.op = "update_news"
    /\ last.err = "ValueError"
    /\ ~key_set
    /\ Len(news_articles) > 0
    /\ Len(blocked_articles) > 0
    /\ Len(covid_updates) > 0
    /\ Len(covid_s) > 0

\* C22 (as claimed): while the news API key is unset, a repeating news job
\* whose event fires stays in news_updates with one queued event that its
\* handle refers to, so that it is tried again.
C22_FailedRepeatingJobStaysArmed ==
    [][\A resp \in ResponsesOf(Batches), interval \in Intervals :
          ( /\ last'.op = "update_news"
            /\ ~key_set
            /\ Head(news_s).arg \in Keys(news_updates)
            /\ Truthy(Get(news_updates, Head(news_s).arg).repeats)
            /\ NewsFire(resp, interval) )
          => /\ Head(news_s).arg \in Keys(news_updates')
             /\ OneLive(news_updates', news_s', Head(news_s).arg)]_vars

\* ------------------------------------------------------------------------
\* Properties of the sweeps
\* ------------------------------------------------------------------------
\* C23 (as claimed): every sweep of a request ends after finitely many
\* firings, whatever the configured update interval is.
C23_SweepsEnd ==
    /\ (pc = "covid_sweep") ~> (pc # "covid_sweep")
    /\ (pc = "news_sweep") ~> (pc # "news_sweep")

\* C24 (as claimed): a sweep fires exactly the due callbacks, so the step that
\* leaves a domain's sweep leaves no due callback in that domain's queue.
C24_SweepFiresEveryDue ==
    [][ /\ (pc = "covid_sweep" /\ pc' # "covid_sweep") => ~HeadDue(covid_s')
        /\ (pc = "news_sweep" /\ pc' # "news_sweep") => ~HeadDue(news_s') ]_vars

\* ------------------------------------------------------------------------
\* Properties of the delay of a created job
\* ------------------------------------------------------------------------
\* The event a registry's job of name n points to.
EventOf(reg, q, n) == q[CHOOSE i \in 1..Len(q) : q[i].id = Get(reg, n).update]

\* C25 (as claimed): the delay of a created job is (target seconds of the day
\* minus current whole seconds of the day) modulo 86400.
C25_DelayIsWholeSecondDifference ==
    [][\A t \in DelayTexts, n \in DelayNames, f \in DelayFracs :
         /\ ( /\ last'.op = "create_covid_update" /\ CreateCovid(t, n, None, f) )
            => EventOf(covid_updates', covid_s', n).time
                  = (TimeSeconds(t) - tod) % SecondsPerDay
         /\ ( /\ last'.op = "create_news_update" /\ CreateNews(t, n, None, f) )
            => EventOf(news_updates', news_s', n).time
                  = (TimeSeconds(t) - tod) % SecondsPerDay]_vars

\* C25 (amended): the delay of a created job is an integer in 0..86399: the
\* target seconds of the day minus the current seconds of the day modulo
\* 86400 when the current time has no sub-second part, and one second less
\* (modulo 86400) when it has one.
C25_DelayIsFlooredDifference ==
    [][\A t \in DelayTexts, n \in DelayNames, f \in DelayFracs :
         /\ ( /\ last'.op = "create_covid_update" /\ CreateCovid(t, n, None, f) )
            => /\ EventOf(covid_updates', covid_s', n).time \in 0..(SecondsPerDay - 1)
               /\ EventOf(covid_updates', covid_s', n).time
                     = (TimeSeconds(t) - tod - f) % SecondsPerDay
         /\ ( /\ last'.op = "create_news_update" /\ CreateNews(t, n, None, f) )
            => /\ EventOf(news_updates', news_s', n).time \in 0..(SecondsPerDay - 1)
               /\ EventOf(news_updates', news_s', n).time
                     = (TimeSeconds(t) - tod - f) % SecondsPerDay]_vars

\* A job for 12:00 created a fraction of a second after 12:00:00 is due
\* 86399 seconds later; a job for 00:00 created at 23:59:59 one second later.
C25_Witness ==
    /\ last.op = "create_covid_update"
    /\ last.err = "none"
    /\ tod = 43200
    /\ Get(covid_updates, last.name).time = T1200
    /\ EventOf(covid_updates, covid_s, last.name).time = SecondsPerDay - 1

\* ------------------------------------------------------------------------
\* Properties of the requests as wholes
\* ------------------------------------------------------------------------
\* C26 (as claimed): between two requests every job of a registry has exactly
\* one live callback in the queue of its domain, its handle is that callback,
\* and every queued callback names a job of the registry of its domain.
C26_JobsAndCallbacksMatch ==
    pc = "idle" =>
        /\ \A n \in Keys(covid_updates) : OneLive(covid_updates, covid_s, n)
        /\ \A n \in Keys(news_updates) : OneLive(news_updates, news_s, n)
        /\ \A i \in 1..Len(covid_s) : covid_s[i].arg \in Keys(covid_updates)
        /\ \A i \in 1..Len(news_s) : news_s[i].arg \in Keys(news_updates)

\* The steps of index() follow one another as written: the event of the
\* request, the covid sweep, the news sweep, the rebuild of the display list.
TickOrder ==
    /\ pc = "idle" => pc' \in {"idle", "covid_sweep"}
    /\ pc = "covid_sweep" =>
          /\ pc' \in {"covid_sweep", "news_sweep", "idle"}
          /\ UNCHANGED <<news_updates, news_s, news_articles, updates>>
    /\ pc = "news_sweep" =>
          /\ pc' \in {"news_sweep", "format", "idle"}
          /\ UNCHANGED <<covid_updates, covid_s, covid_data, updates>>
    /\ pc = "format" =>
          /\ pc' = "idle"
          /\ UNCHANGED <<covid_updates, covid_s, news_updates, news_s>>
    /\ updates' # updates => pc = "format"

\* C27: the steps of a request come in the order event, covid sweep, news
\* sweep, rebuild.  A removed job has no callback left, and a callback that
\* fires is one of a job of the registry that the request has not popped, so
\* a removed job fires neither in the request that removes it nor later.  The
\* display list a request rebuilds has no row of the domain of a job that
\* the request removed or retired.
C27_TickOrder ==
    [][ /\ TickOrder
        /\ (last'.op = "remove_update" /\ last'.err = "none") =>
              /\ last'.name \notin Keys(covid_updates') \cup Keys(news_updates')
              /\ Live(covid_s', last'.name) = {}
              /\ Live(news_s', last'.name) = {}
        /\ last'.op = "run_covid_update" =>
              /\ Head(covid_s).arg \in Keys(covid_updates)
              /\ <<"covid", Head(covid_s).arg>> \notin last.gone
        /\ last'.op = "update_news" =>
              /\ Head(news_s).arg \in Keys(news_updates)
              /\ <<"news", Head(news_s).arg>> \notin last.gone
        /\ last'.op = "format_updates" =>
              \A g \in last'.gone :
                 /\ g[1] = "covid" => g[2] \notin Keys(covid_updates')
                 /\ g[1] = "news" => g[2] \notin Keys(news_updates')
                 /\ \A i \in 1..Len(updates') :
                       updates'[i].title = g[2] =>
                          /\ g[2] \in Keys(covid_updates') \cup Keys(news_updates')
                          /\ updates'[i].content
                                = format_update(
                                     Get(Merge(covid_updates', news_updates'), g[2]),
                                     g[2] \in Keys(covid_updates'),
                                     g[2] \in Keys(news_updates')) ]_vars

\* A request has removed or retired a job and has rebuilt the display list,
\* which has no row of the job's name.
C27_Witness ==
    /\ last.op = "format_updates"
    /\ last.gone # {}
    /\ \A g \in last.gone : \A i \in 1..Len(updates) : updates[i].title # g[2]

====
